---- MODULE Spec2Model ----
(***************************************************************************)
(* The WhatsApp loyalty-card prototype.                                    *)
(*                                                                         *)
(* Stamp-card renderers.  Three modules render the card:                   *)
(* card_renderer.render_stamp_card, app.render_stamp_card (Pillow) and     *)
(* card_svg.render_card_png (cairosvg).  A process serves cards from one   *)
(* of them; render calls may overlap (one call per request thread).  A     *)
(* call is modelled statement block by statement block: entry (clamp +     *)
(* new canvas), text measurement + layout, the 2 x 5 grid loop one row per *)
(* step, footer, save, seek, return.  (Spec)                               *)
(*                                                                         *)
(* Card routes of app.py: /card?n=<x> and /card/<int:visits>.png, from     *)
(* the request to the response.  (SpecRoutes)                              *)
(*                                                                         *)
(* The SALE branch of app.handle_webhook on the shared database            *)
(* connection, one delivery per thread.  (SpecSale)                        *)
(*                                                                         *)
(* handle_checkin / handle_clockin on one member's row, with a clock.      *)
(* (SpecCheckin)                                                           *)
(*                                                                         *)
(* The profile flow of qa_handler.py, request by request: answers handled  *)
(* one after the other (SpecSurveySeq) or on two threads (SpecSurvey).     *)
(*                                                                         *)
(* The review prompt, Google link and reply handler of review.py, call by  *)
(* call.  (SpecReview)                                                     *)
(*                                                                         *)
(* The GET /webhook verification handshake of app.py.  (SpecVerify)        *)
(***************************************************************************)
EXTENDS Integers, Sequences, FiniteSets, TLC

VARIABLES
    module,       \* which renderer module the process serves cards from
    icon_file,    \* the file at COFFEE_ICON_PATH when the module is imported
    coffee_src,   \* the module-level _coffee_src: "None" or "icon"
    font,         \* what _font() yields in this environment
    call,         \* per request slot: the frame of its render call
    http,         \* the card-route request in flight and its response
    db,           \* app.py's Postgres connection `conn` and the customers row
    webhook,      \* SALE deliveries: one handle_webhook frame per thread
    checkin,      \* one member's row, the clock, and the last check-in call
    survey,       \* one customer's profile flow: tables, outbox, answer calls
    review,       \* review prompts and replies: responses rows, outbox, last call
    hub           \* the GET /webhook verification request and its response

vars ==
    <<module, icon_file, coffee_src, font, call, http, db, webhook, checkin,
      survey, review, hub>>

----------------------------------------------------------------------------
(* Bounds of the model                                                     *)

\* visits arguments range over -Overshoot .. 10 + Overshoot
Overshoot == 1
\* font scales 1 .. MaxFontIdx
MaxFontIdx == 2
\* measured text height per unit of font scale (pixels)
HeightStep == 24
\* measured advance per character per unit of font scale (pixels)
AdvanceStep == 30

\* request slots: two overlapping render calls
Calls == {1, 2}
VisitArgs == (0 - Overshoot) .. (10 + Overshoot)
FontIdx == 1 .. MaxFontIdx
Modules == {"card_renderer", "app", "card_svg"}

----------------------------------------------------------------------------
(* card_renderer.py constants                                              *)

W == 1080
H == 1080
TITLE_Y == 56
LOGO_CENTER_Y == 300
THANK_Y_TARGET == 540
FOOTER_Y == H - 74
CIRCLE_R == 72
ROW_GAP == 180
COL_GAP == 180
LEFT_X == (W - 4 * COL_GAP) \div 2
MIN_GAP_BELOW_THANK == 100
GRID_TOP_FIXED_MIN == 740
logo_outer_r == 100
LOGO_CLEARANCE == 40
FOOTER_MARGIN_TOP == 120

(* app.py render_stamp_card constants                                      *)

APP_MARGIN == (H * 3) \div 100
APP_TITLE_Y == 56
APP_LOGO_Y == 330 + APP_MARGIN
APP_SUBTITLE_Y == 535 + APP_MARGIN
APP_SUBTITLE_GAP == 70
APP_GRID_TOP == APP_SUBTITLE_Y + APP_SUBTITLE_GAP + 100
APP_ROW_GAP == 180
APP_COL_GAP == 180
APP_CIRCLE_R == 72
APP_left_x == (W - 4 * APP_COL_GAP) \div 2

(* card_svg.py constants                                                   *)

SVG_TITLE_Y == 120
SVG_LOGO_CX == W \div 2
SVG_LOGO_CY == 300
SVG_THANK_Y == 520
SVG_GRID_TOP_Y == 700
SVG_ROW_GAP == 180
SVG_COL_GAP == 180
SVG_CIRCLE_R == 72
SVG_LEFT_X == (W - 4 * SVG_COL_GAP) \div 2
SVG_FOOTER_Y == H - 74

(* the strings drawn, by their length in characters                        *)
TitleLen == Len("COFFEE SHOP")
LogoLen == Len("LOGO")
ThankLen == Len("THANK YOU FOR VISITING TODAY!")
FootLen == Len("10 STAMPS = 1 FREE COFFEE")

----------------------------------------------------------------------------
(* Helpers                                                                 *)

Max(a, b) == IF a >= b THEN a ELSE b
Min(a, b) == IF a <= b THEN a ELSE b

\* mutant: the lower bound of the SALE handler's clamp (1) used in the renderer
ClampFromOne(v) == Max(1, Min(10, v))

\* visits = max(0, min(10, int(visits)))
Clamp(v) == Max(0, Min(10, v))

\* d.textbbox((0, 0), text, font=f): (left, top, right, bottom) of the text
\* in the environment's font; the top bearing and the extents scale with
\* the font.
TextBBox(n, f) ==
    [left |-> 0, top |-> f.idx, right |-> n * f.idx * AdvanceStep,
     bottom |-> f.idx + f.idx * HeightStep]

BoxW(b) == b.right - b.left
BoxH(b) == b.bottom - b.top

\* module import: Image.open(COFFEE_ICON_PATH).convert("L") under
\* try/except Exception -> None
LoadIcon(file) == IF file = "ok" THEN "icon" ELSE "None"

----------------------------------------------------------------------------
(* Layout                                                                  *)

\* mutant: min instead of max of the two candidates
ThankYMin == Min(THANK_Y_TARGET, LOGO_CENTER_Y + logo_outer_r + LOGO_CLEARANCE)

\* thank_y = max(THANK_Y_TARGET, LOGO_CENTER_Y + logo_outer_r + 40)
ThankY == Max(THANK_Y_TARGET, LOGO_CENTER_Y + logo_outer_r + LOGO_CLEARANCE)

\* mutant: the top guard alone, the bottom guard is skipped
GridTopCenterTopGuardOnly(thank_bottom) ==
    Max(GRID_TOP_FIXED_MIN, thank_bottom + MIN_GAP_BELOW_THANK + CIRCLE_R)

\* the two grid guards of card_renderer: top guard, then bottom guard
GridTopCenter(thank_bottom) ==
    LET min_center_from_text == thank_bottom + MIN_GAP_BELOW_THANK + CIRCLE_R
        top_guarded == Max(GRID_TOP_FIXED_MIN, min_center_from_text)
        max_top_center_allowed == FOOTER_Y - FOOTER_MARGIN_TOP - CIRCLE_R - ROW_GAP
    IN  Min(top_guarded, max_top_center_allowed)

NoLayout ==
    [title_x |-> 0, title_y |-> 0, logo_cx |-> 0, logo_cy |-> 0,
     logo_tx |-> 0, logo_ty |-> 0, thank_x |-> 0, thank_y |-> 0,
     thank_h |-> 0, grid_top |-> 0, foot_x |-> 0, footer_y |-> 0]

\* card_renderer.render_stamp_card, title .. grid guards
RendererLayout(f) ==
    LET tbox == TextBBox(TitleLen, f)
        lbox == TextBBox(LogoLen, f)
        sbox == TextBBox(ThankLen, f)
        cx == W \div 2
        cy == LOGO_CENTER_Y
        thank_w == BoxW(sbox)
        thank_h == BoxH(sbox)
        thank_y == ThankY
        thank_bottom == thank_y + thank_h
    IN  [title_x |-> (W - BoxW(tbox)) \div 2, title_y |-> TITLE_Y,
         logo_cx |-> cx, logo_cy |-> cy,
         logo_tx |-> cx - (BoxW(lbox) \div 2),
         logo_ty |-> cy - (BoxH(lbox) \div 2),
         thank_x |-> (W - thank_w) \div 2, thank_y |-> thank_y,
         thank_h |-> thank_h,
         grid_top |-> GridTopCenter(thank_bottom),
         foot_x |-> 0, footer_y |-> 0]

\* app.render_stamp_card, title .. subtitle (center_text and fixed offsets)
AppLayout(f) ==
    LET tbox == TextBBox(TitleLen, f)
        lbox == TextBBox(LogoLen, f)
        sbox == TextBBox(ThankLen, f)
        cx == W \div 2
        cy == APP_LOGO_Y
    IN  [title_x |-> (W - BoxW(tbox)) \div 2, title_y |-> APP_TITLE_Y,
         logo_cx |-> cx, logo_cy |-> cy,
         logo_tx |-> cx - (lbox.right \div 2),
         logo_ty |-> cy - (lbox.bottom \div 2),
         thank_x |-> (W - BoxW(sbox)) \div 2, thank_y |-> APP_SUBTITLE_Y,
         thank_h |-> BoxH(sbox),
         grid_top |-> APP_GRID_TOP,
         foot_x |-> 0, footer_y |-> 0]

\* card_svg.build_svg: every text is anchored at its middle, nothing measured
SvgLayout ==
    [title_x |-> W \div 2, title_y |-> SVG_TITLE_Y,
     logo_cx |-> SVG_LOGO_CX, logo_cy |-> SVG_LOGO_CY,
     logo_tx |-> SVG_LOGO_CX, logo_ty |-> SVG_LOGO_CY + 14,
     thank_x |-> W \div 2, thank_y |-> SVG_THANK_Y,
     thank_h |-> 0,
     grid_top |-> SVG_GRID_TOP_Y,
     foot_x |-> 0, footer_y |-> 0]

HeadLayout(m, f) ==
    CASE m = "card_renderer" -> RendererLayout(f)
      [] m = "app" -> AppLayout(f)
      [] OTHER -> SvgLayout

\* the footer line of each module
FootLayout(m, f, lay) ==
    LET fbox == TextBBox(FootLen, f)
    IN  CASE m = "card_renderer" ->
               [lay EXCEPT !.foot_x = (W - BoxW(fbox)) \div 2, !.footer_y = FOOTER_Y]
          [] m = "app" ->
               [lay EXCEPT !.foot_x = (W - BoxW(fbox)) \div 2, !.footer_y = H - 74]
          [] OTHER ->
               [lay EXCEPT !.foot_x = W \div 2, !.footer_y = SVG_FOOTER_Y]

----------------------------------------------------------------------------
(* The 2 x 5 grid                                                          *)

Cells == 0 .. 9

\* mutant: the first column starts one radius from the left edge
CellXFromRadius(m, col) == CIRCLE_R + col * COL_GAP

\* x = LEFT_X + col * COL_GAP
CellX(m, col) ==
    CASE m = "card_renderer" -> LEFT_X + col * COL_GAP
      [] m = "app" -> APP_left_x + col * APP_COL_GAP
      [] OTHER -> SVG_LEFT_X + col * SVG_COL_GAP

\* y = grid_top_center + row * ROW_GAP
CellY(m, top, row) ==
    CASE m = "card_renderer" -> top + row * ROW_GAP
      [] m = "app" -> top + row * APP_ROW_GAP
      [] OTHER -> top + row * SVG_ROW_GAP

\* mutant: off-by-one comparison
IsStampInclusive(k, visits) == k <= visits

\* (draw_stamp if k < visits else draw_empty)
IsStamp(k, visits) == k < visits

\* mutant: the icon is composited without the None check
OverlayUnchecked(m, icon) == m # "card_svg"

\* draw_stamp composites the icon only when one is cached
Overlay(m, icon) == m # "card_svg" /\ icon # "None"

BlankCell == [fill |-> "BLANK", overlay |-> FALSE, x |-> 0, y |-> 0]

\* what one pass of the loop body draws for index k
DrawnCell(m, icon, k, visits, top) ==
    LET row == k \div 5
        col == k % 5
        x == CellX(m, col)
        y == CellY(m, top, row)
    IN  IF IsStamp(k, visits)
        THEN [fill |-> "FILLED", overlay |-> Overlay(m, icon), x |-> x, y |-> y]
        ELSE [fill |-> "EMPTY", overlay |-> FALSE, x |-> x, y |-> y]

----------------------------------------------------------------------------
(* Output buffer (BytesIO)                                                 *)

NewBuffer == [written |-> FALSE, pos |-> 0, width |-> 0, height |-> 0,
              pixels |-> [k \in Cells |-> BlankCell]]

\* number of bytes the encoder writes: never zero
EncodedLen(cells) == 8 + Cardinality({k \in Cells : cells[k].fill = "FILLED"})

\* im.save(out, format="PNG") / cairosvg.svg2png(write_to=out): the bytes
\* are appended and the position is left at their end
SaveTo(buf, cells) ==
    [buf EXCEPT !.written = TRUE, !.pos = buf.pos + EncodedLen(cells),
                !.width = W, !.height = H, !.pixels = cells]

\* mutant: the buffer is returned without rewinding
SeekMissing(buf) == buf

\* out.seek(0)
SeekStart(buf) == [buf EXCEPT !.pos = 0]

----------------------------------------------------------------------------
(* The other parts of the service when nothing is in flight                *)

\* no card-route request in flight
HttpIdle ==
    [pc |-> "idle", route |-> "none", arg |-> [present |-> FALSE, text |-> <<>>],
     seg |-> <<>>, status |-> 0, location |-> <<>>, body |-> NewBuffer]

\* webhook threads
Threads == {1, 2}

\* the store before any SALE: no customers row, no transaction open
DbIdle ==
    [conn |-> "None", reentry |-> "refused", profiles |-> FALSE,
     number_of_visits |-> 0, txn |-> "none", pending |-> 0, entered |-> 0]

SaleFrame == [pc |-> "idle", visits |-> 0, shown |-> 0, sent |-> <<>>]

WebhookIdle ==
    [base |-> 0, received |-> 0, h |-> [t \in Threads |-> SaleFrame]]

\* now_utc.isoformat() + "Z": whole seconds, written with the Z suffix
IsoFormat(t) == [secs |-> t, zone |-> "Z"]

\* no row for the member in members / staff
NoRow ==
    [exists |-> FALSE, checkin_count |-> 0, last_checkin_at |-> IsoFormat(0)]

\* nobody has checked in yet
CheckinIdle ==
    [handler |-> "handle_checkin", now |-> 0, row |-> NoRow, calls |-> 0,
     select |-> "none", upsert |-> "none", reply |-> "none",
     reply_count |-> 0, counted_at |-> 0, sent |-> <<>>]

\* threads answering one customer's messages
Answerers == {1, 2}

\* no response_states row for the customer
NoState ==
    [exists |-> FALSE, flow_id |-> "none", step_index |-> 0, total_steps |-> 0]

NoProfile ==
    [exists |-> FALSE, birthday |-> "None", favorite_flavor |-> "None",
     promo_opt_in |-> "None"]

AnswerFrame ==
    [pc |-> "idle", text |-> "", step |-> 0, total |-> 0, result |-> FALSE]

\* no flow started, nothing recorded, nothing sent
SurveyIdle ==
    [state |-> NoState, responses |-> <<>>, profile |-> NoProfile,
     outbox |-> <<>>, starts |-> 0, answers |-> 0,
     h |-> [a \in Answerers |-> AnswerFrame]]

\* a request parameter or environment variable that is not there (None)
Absent == [present |-> FALSE, text |-> ""]

\* no review call made yet
NoReviewCall ==
    [fn |-> "none", text |-> Absent, insert |-> "none", result |-> "None",
     sent |-> <<>>]

\* nothing logged in responses by review.py, nothing sent
ReviewIdle ==
    [responses |-> <<>>, outbox |-> <<>>, calls |-> 0, last |-> NoReviewCall]

\* no verification request in flight; WHATSAPP_VERIFY_TOKEN not set
HubIdle ==
    [env |-> Absent, pc |-> "idle", mode |-> Absent, token |-> Absent,
     challenge |-> Absent, status |-> 0, body |-> ""]

\* the variables the renderer never touches
beyondRender == <<http, db, webhook, checkin, survey, review, hub>>

\* the variables the card routes never touch
beyondRoutes == <<db, webhook, checkin, survey, review, hub>>

\* the variables the SALE branch of the webhook never touches
beyondSale ==
    <<module, icon_file, coffee_src, font, call, http, checkin, survey,
      review, hub>>

\* the variables handle_checkin / handle_clockin never touch
beyondCheckin ==
    <<module, icon_file, coffee_src, font, call, http, db, webhook, survey,
      review, hub>>

\* the variables the profile flow never touches
beyondSurvey ==
    <<module, icon_file, coffee_src, font, call, http, db, webhook, checkin,
      review, hub>>

\* the variables review.py never touches
beyondReview ==
    <<module, icon_file, coffee_src, font, call, http, db, webhook, checkin,
      survey, hub>>

\* the variables verify_webhook never touches
beyondVerify ==
    <<module, icon_file, coffee_src, font, call, http, db, webhook, checkin,
      survey, review>>

----------------------------------------------------------------------------
(* Render calls                                                            *)

IdleFrame ==
    [pc |-> "idle", arg |-> 0, visits |-> 0, k |-> 0, lay |-> NoLayout,
     cells |-> [i \in Cells |-> BlankCell], buf |-> NewBuffer]

\* the fonts _font() can yield: a scalable font, or a fallback whose text
\* the drawing backend cannot measure (textbbox raises)
Fonts ==
    {[measurable |-> TRUE, idx |-> i] : i \in FontIdx}
        \cup {[measurable |-> FALSE, idx |-> 1]}

IconFiles == {"ok", "missing", "unreadable"}

\* process start: module import loads the icon once; card_svg opens no icon
\* file and loads no Pillow font
Init ==
    /\ module \in Modules
    /\ icon_file \in IF module = "card_svg" THEN {"missing"} ELSE IconFiles
    /\ coffee_src = IF module = "card_svg" THEN "None" ELSE LoadIcon(icon_file)
    /\ font \in IF module = "card_svg"
                THEN {[measurable |-> TRUE, idx |-> 1]}
                ELSE Fonts
    /\ call = [c \in Calls |-> IdleFrame]
    /\ http = HttpIdle
    /\ db = DbIdle
    /\ webhook = WebhookIdle
    /\ checkin = CheckinIdle
    /\ survey = SurveyIdle
    /\ review = ReviewIdle
    /\ hub = HubIdle

\* entry of render_stamp_card / build_svg: clamp the argument, new canvas
Call(c, v) ==
    /\ call[c].pc = "idle"
    /\ call' = [call EXCEPT ![c] =
                  [IdleFrame EXCEPT !.pc = "head", !.arg = v, !.visits = Clamp(v)]]
    /\ UNCHANGED <<module, icon_file, coffee_src, font>>

\* mutant: the grid is pushed down by the number of stamps
MeasureByVisits(c) ==
    /\ call[c].pc = "head"
    /\ module = "card_svg" \/ font.measurable
    /\ call' = [call EXCEPT
                  ![c].lay = [HeadLayout(module, font) EXCEPT
                                !.grid_top = @ + call[c].visits],
                  ![c].pc = "grid", ![c].k = 0]
    /\ UNCHANGED <<module, icon_file, coffee_src, font>>

\* title, logo and thank-you line: measured, placed and drawn
Measure(c) ==
    /\ call[c].pc = "head"
    /\ module = "card_svg" \/ font.measurable
    /\ call' = [call EXCEPT ![c].lay = HeadLayout(module, font),
                            ![c].pc = "grid", ![c].k = 0]
    /\ UNCHANGED <<module, icon_file, coffee_src, font>>

\* d.textbbox raises on the first text: nothing in the function catches it
MeasureRaises(c) ==
    /\ call[c].pc = "head"
    /\ module # "card_svg" /\ ~font.measurable
    /\ call' = [call EXCEPT ![c].pc = "raised"]
    /\ UNCHANGED <<module, icon_file, coffee_src, font>>

\* mutant: one module-level canvas, every call in its loop draws on it
DrawRowShared(c) ==
    /\ call[c].pc = "grid"
    /\ call[c].k < 10
    /\ call' = [d \in Calls |->
                  IF d = c \/ call[d].pc = "grid"
                  THEN [call[d] EXCEPT
                          !.cells = [i \in Cells |->
                                       IF i \in call[c].k .. (call[c].k + 4)
                                       THEN DrawnCell(module, coffee_src, i,
                                                      call[c].visits,
                                                      call[c].lay.grid_top)
                                       ELSE @[i]],
                          !.k = IF d = c THEN call[c].k + 5 ELSE @]
                  ELSE call[d]]
    /\ UNCHANGED <<module, icon_file, coffee_src, font>>

\* one pass of the outer loop: the five cells of a row, k .. k + 4, are
\* drawn left to right on the call's own canvas
DrawRow(c) ==
    /\ call[c].pc = "grid"
    /\ call[c].k < 10
    /\ call' = [call EXCEPT
                  ![c].cells = [i \in Cells |->
                                  IF i \in call[c].k .. (call[c].k + 4)
                                  THEN DrawnCell(module, coffee_src, i,
                                                 call[c].visits,
                                                 call[c].lay.grid_top)
                                  ELSE @[i]],
                  ![c].k = call[c].k + 5]
    /\ UNCHANGED <<module, icon_file, coffee_src, font>>

\* footer line, after the loop
Footer(c) ==
    /\ call[c].pc = "grid"
    /\ call[c].k = 10
    /\ call' = [call EXCEPT ![c].lay = FootLayout(module, font, call[c].lay),
                            ![c].pc = "save"]
    /\ UNCHANGED <<module, icon_file, coffee_src, font>>

\* out = BytesIO(); im.save(out, format="PNG")
Save(c) ==
    /\ call[c].pc = "save"
    /\ call' = [call EXCEPT ![c].buf = SaveTo(NewBuffer, call[c].cells),
                            ![c].pc = "seek"]
    /\ UNCHANGED <<module, icon_file, coffee_src, font>>

\* out.seek(0); return out
Seek(c) ==
    /\ call[c].pc = "seek"
    /\ call' = [call EXCEPT ![c].buf = SeekStart(call[c].buf),
                            ![c].pc = "done"]
    /\ UNCHANGED <<module, icon_file, coffee_src, font>>

\* the caller has consumed the returned buffer
Return(c) ==
    /\ call[c].pc = "done"
    /\ call' = [call EXCEPT ![c] = IdleFrame]
    /\ UNCHANGED <<module, icon_file, coffee_src, font>>

\* the exception has left render_stamp_card and reached the caller
Unwind(c) ==
    /\ call[c].pc = "raised"
    /\ call' = [call EXCEPT ![c] = IdleFrame]
    /\ UNCHANGED <<module, icon_file, coffee_src, font>>

Next ==
    \E c \in Calls :
        \/ (\E v \in VisitArgs : Call(c, v)) /\ UNCHANGED beyondRender
        \/ Measure(c) /\ UNCHANGED beyondRender
        \/ MeasureRaises(c) /\ UNCHANGED beyondRender
        \/ DrawRow(c) /\ UNCHANGED beyondRender
        \/ Footer(c) /\ UNCHANGED beyondRender
        \/ Save(c) /\ UNCHANGED beyondRender
        \/ Seek(c) /\ UNCHANGED beyondRender
        \/ Return(c) /\ UNCHANGED beyondRender
        \/ Unwind(c) /\ UNCHANGED beyondRender

Spec == Init /\ [][Next]_vars

----------------------------------------------------------------------------
(* What a call returns when nothing else runs: the statements of the       *)
(* function in program order                                               *)

RenderAlone(m, icon, f, v) ==
    LET visits == Clamp(v)
        head == HeadLayout(m, f)
        cells == [k \in Cells |-> DrawnCell(m, icon, k, visits, head.grid_top)]
    IN  [visits |-> visits,
         lay |-> FootLayout(m, f, head),
         cells |-> cells,
         buf |-> SeekStart(SaveTo(NewBuffer, cells))]

\* stages of a call
PastHead(c) == call[c].pc \in {"grid", "save", "seek", "done"}
GridDone(c) == call[c].pc \in {"save", "seek", "done"}
Returned(c) == call[c].pc = "done"

FilledOf(cells) == {i \in Cells : cells[i].fill = "FILLED"}
EmptyOf(cells) == {i \in Cells : cells[i].fill = "EMPTY"}

----------------------------------------------------------------------------
(* Card routes of app.py: /card?n=<x> and /card/<int:visits>.png           *)

\* longest query value / path segment a client sends
MaxStrLen == 2

Digits == {"0", "1", "2", "3", "4", "5", "6", "7", "8", "9"}

\* the characters clients put in a count: a sign, some digits, a letter
InputChars == {"-", "0", "1", "9", "x"}

DigitVal(ch) ==
    CASE ch = "0" -> 0 [] ch = "1" -> 1 [] ch = "2" -> 2 [] ch = "3" -> 3
      [] ch = "4" -> 4 [] ch = "5" -> 5 [] ch = "6" -> 6 [] ch = "7" -> 7
      [] ch = "8" -> 8 [] ch = "9" -> 9

DigitChar(d) ==
    CASE d = 0 -> "0" [] d = 1 -> "1" [] d = 2 -> "2" [] d = 3 -> "3"
      [] d = 4 -> "4" [] d = 5 -> "5" [] d = 6 -> "6" [] d = 7 -> "7"
      [] d = 8 -> "8" [] d = 9 -> "9"

Strings(n) == UNION {[1 .. k -> InputChars] : k \in 0 .. n}

AllDigits(s) == Len(s) > 0 /\ \A i \in 1 .. Len(s) : s[i] \in Digits

RECURSIVE DigitsValue(_)
DigitsValue(s) ==
    IF Len(s) = 0 THEN 0
    ELSE 10 * DigitsValue(SubSeq(s, 1, Len(s) - 1)) + DigitVal(s[Len(s)])

\* int(text) parses: an optional sign, then one or more digits
IsIntLiteral(s) ==
    /\ Len(s) > 0
    /\ AllDigits(IF s[1] = "-" THEN Tail(s) ELSE s)

\* int(text) for a literal it parses
PyInt(s) ==
    IF s[1] = "-" THEN 0 - DigitsValue(Tail(s)) ELSE DigitsValue(s)

\* str(v) for v >= 0, as url_for writes the visits segment
RECURSIVE Decimal(_)
Decimal(v) ==
    IF v < 10 THEN <<DigitChar(v)>>
    ELSE Decimal(v \div 10) \o <<DigitChar(v % 10)>>

\* request.args.get("n", 0): absent, or the text the client sent
QueryArgs ==
    {[present |-> FALSE, text |-> <<>>]}
        \cup {[present |-> TRUE, text |-> s] : s \in Strings(MaxStrLen)}

\* try: n = int(request.args.get("n", 0)) / except ValueError: n = 0
QueryCount(arg) ==
    IF ~arg.present THEN 0
    ELSE IF IsIntLiteral(arg.text) THEN PyInt(arg.text)
    ELSE 0

\* the <int:visits> converter of the PNG rule matches unsigned digits only
IntConverterMatches(seg) == AllDigits(seg)

\* a client requests GET /card?n=<arg>
GetCard(arg) ==
    /\ http.pc = "idle"
    /\ http' = [HttpIdle EXCEPT !.pc = "card_query", !.route = "card_query",
                                !.arg = arg]
    /\ UNCHANGED <<module, icon_file, coffee_src, font, call>>

\* card_query: redirect(url_for("card_png", visits=max(0, min(10, n))), 302)
CardQuery ==
    /\ http.pc = "card_query"
    /\ http' = [http EXCEPT !.pc = "responded", !.status = 302,
                            !.location = Decimal(Clamp(QueryCount(http.arg)))]
    /\ UNCHANGED <<module, icon_file, coffee_src, font, call>>

\* the client follows the redirect to /card/<location>.png
FollowRedirect ==
    /\ http.pc = "responded"
    /\ http.status = 302
    /\ http' = [http EXCEPT !.pc = "routing", !.seg = http.location,
                            !.status = 0]
    /\ UNCHANGED <<module, icon_file, coffee_src, font, call>>

\* a client requests GET /card/<seg>.png directly
GetCardPng(seg) ==
    /\ http.pc = "idle"
    /\ http' = [HttpIdle EXCEPT !.pc = "routing", !.route = "card_png",
                                !.seg = seg]
    /\ UNCHANGED <<module, icon_file, coffee_src, font, call>>

\* the rule matches: card_png(visits) calls render_stamp_card(visits)
CardPng ==
    /\ http.pc = "routing"
    /\ IntConverterMatches(http.seg)
    /\ Call(1, DigitsValue(http.seg))
    /\ http' = [http EXCEPT !.pc = "card_png"]

\* no rule matches the path: the router answers 404 Not Found
NotFound ==
    /\ http.pc = "routing"
    /\ ~IntConverterMatches(http.seg)
    /\ http' = [http EXCEPT !.pc = "responded", !.status = 404]
    /\ UNCHANGED <<module, icon_file, coffee_src, font, call>>

\* return send_file(png, mimetype="image/png", ...)
SendFile ==
    /\ http.pc = "card_png"
    /\ http' = [http EXCEPT !.pc = "responded", !.status = 200,
                            !.body = call[1].buf]
    /\ Return(1)

\* render_stamp_card raised: the request ends in 500 Internal Server Error
ServerError ==
    /\ http.pc = "card_png"
    /\ http' = [http EXCEPT !.pc = "responded", !.status = 500]
    /\ Unwind(1)

\* the response has been delivered
Respond ==
    /\ http.pc = "responded"
    /\ http' = HttpIdle
    /\ UNCHANGED <<module, icon_file, coffee_src, font, call>>

\* the routes live in app.py and call its render_stamp_card
InitRoutes ==
    /\ module = "app"
    /\ icon_file \in IconFiles
    /\ coffee_src = LoadIcon(icon_file)
    /\ font \in Fonts
    /\ call = [c \in Calls |-> IdleFrame]
    /\ http = HttpIdle
    /\ db = DbIdle
    /\ webhook = WebhookIdle
    /\ checkin = CheckinIdle
    /\ survey = SurveyIdle
    /\ review = ReviewIdle
    /\ hub = HubIdle

NextRoutes ==
    \/ (\E arg \in QueryArgs : GetCard(arg)) /\ UNCHANGED beyondRoutes
    \/ CardQuery /\ UNCHANGED beyondRoutes
    \/ FollowRedirect /\ UNCHANGED beyondRoutes
    \/ (\E seg \in Strings(MaxStrLen) : GetCardPng(seg))
          /\ UNCHANGED beyondRoutes
    \/ CardPng /\ UNCHANGED beyondRoutes
    \/ NotFound /\ UNCHANGED beyondRoutes
    \/ Measure(1) /\ UNCHANGED <<http, beyondRoutes>>
    \/ MeasureRaises(1) /\ UNCHANGED <<http, beyondRoutes>>
    \/ DrawRow(1) /\ UNCHANGED <<http, beyondRoutes>>
    \/ Footer(1) /\ UNCHANGED <<http, beyondRoutes>>
    \/ Save(1) /\ UNCHANGED <<http, beyondRoutes>>
    \/ Seek(1) /\ UNCHANGED <<http, beyondRoutes>>
    \/ SendFile /\ UNCHANGED beyondRoutes
    \/ ServerError /\ UNCHANGED beyondRoutes
    \/ Respond /\ UNCHANGED beyondRoutes

SpecRoutes == InitRoutes /\ [][NextRoutes]_vars

\* the count a request carries, as the route reads it
RequestCount ==
    IF http.route = "card_query" THEN QueryCount(http.arg)
    ELSE IF IsIntLiteral(http.seg) THEN PyInt(http.seg)
    ELSE 0

----------------------------------------------------------------------------
(* The SALE branch of handle_webhook (app.py)                              *)
(*                                                                         *)
(* Every webhook thread works on the one module-level connection `conn`.   *)
(* A connection carries one transaction: statements of different threads   *)
(* join it, a failed statement aborts it as a whole, and the `with conn:`  *)
(* block that ends first commits or rolls back all of it.  Entering        *)
(* `with conn:` while another block on the connection is open is either    *)
(* allowed or refused with an error, depending on the driver.              *)

\* SALE messages delivered in a run
MaxSales == 3
\* visits a returning sender has stored when the run starts
StartVisits == 8

\* conn.commit()
Commit(d) ==
    [d EXCEPT !.number_of_visits = IF d.txn = "open" THEN d.pending ELSE @,
              !.txn = "none", !.pending = 0]

\* conn.rollback()
Rollback(d) == [d EXCEPT !.txn = "none", !.pending = 0]

\* visits = max(1, min(10, visits))
ShownVisits(v) == Max(1, Min(10, v))

\* a SALE text from the sender reaches handle_webhook on thread t
DeliverSale(t) ==
    /\ webhook.h[t].pc = "idle"
    /\ webhook.received < MaxSales
    /\ webhook' = [webhook EXCEPT !.received = @ + 1,
                                  !.h[t] = [SaleFrame EXCEPT !.pc = "sale"]]
    /\ UNCHANGED db

\* if conn is None: raise RuntimeError(...)
NotConfigured(t) ==
    /\ webhook.h[t].pc = "sale"
    /\ db.conn = "None"
    /\ webhook' = [webhook EXCEPT !.h[t].pc = "except"]
    /\ UNCHANGED db

\* with conn: (first block) is entered
EnterUpsert(t) ==
    /\ webhook.h[t].pc = "sale"
    /\ db.conn = "connected"
    /\ db.reentry = "allowed" \/ db.entered = 0
    /\ db' = [db EXCEPT !.entered = IF db.reentry = "refused" THEN 1 ELSE @]
    /\ webhook' = [webhook EXCEPT !.h[t].pc = "upsert"]

\* with conn: (first block) is refused, another block is open
EnterUpsertRefused(t) ==
    /\ webhook.h[t].pc = "sale"
    /\ db.conn = "connected"
    /\ db.reentry = "refused" /\ db.entered = 1
    /\ webhook' = [webhook EXCEPT !.h[t].pc = "except"]
    /\ UNCHANGED db

\* CREATE TABLE IF NOT EXISTS customers; INSERT ... VALUES (%s, 1, NOW())
\* ON CONFLICT DO UPDATE SET number_of_visits = number_of_visits + 1
\* RETURNING number_of_visits; visits = cur.fetchone()[0]
Upsert(t) ==
    /\ webhook.h[t].pc = "upsert"
    /\ db.txn # "aborted"
    /\ LET before == IF db.txn = "open" THEN db.pending ELSE db.number_of_visits
       IN  /\ db' = [db EXCEPT !.txn = "open", !.pending = before + 1]
           /\ webhook' = [webhook EXCEPT !.h[t].visits = before + 1,
                                         !.h[t].pc = "commit"]

\* the statement is refused: the connection's transaction is aborted; the
\* block rolls back and the exception leaves the SALE branch
UpsertRaises(t) ==
    /\ webhook.h[t].pc = "upsert"
    /\ db.txn = "aborted"
    /\ db' = [Rollback(db) EXCEPT !.entered = 0]
    /\ webhook' = [webhook EXCEPT !.h[t].pc = "except"]

\* the first block ends: commit; then visits = max(1, min(10, visits))
CommitUpsert(t) ==
    /\ webhook.h[t].pc = "commit"
    /\ db' = [Commit(db) EXCEPT !.entered = 0]
    /\ webhook' = [webhook EXCEPT
                     !.h[t].shown = ShownVisits(webhook.h[t].visits),
                     !.h[t].pc = "image"]

\* send_image(from_number, build_card_url(visits))
SendImage(t) ==
    /\ webhook.h[t].pc = "image"
    /\ webhook' = [webhook EXCEPT !.h[t].sent = Append(@, "image"),
                                  !.h[t].pc = "profile"]
    /\ UNCHANGED db

\* try: with conn: (second block) is entered
EnterProfile(t) ==
    /\ webhook.h[t].pc = "profile"
    /\ db.reentry = "allowed" \/ db.entered = 0
    /\ db' = [db EXCEPT !.entered = IF db.reentry = "refused" THEN 1 ELSE @]
    /\ webhook' = [webhook EXCEPT !.h[t].pc = "select"]

\* with conn: (second block) is refused; except Exception: pass
EnterProfileRefused(t) ==
    /\ webhook.h[t].pc = "profile"
    /\ db.reentry = "refused" /\ db.entered = 1
    /\ webhook' = [webhook EXCEPT !.h[t].pc = "text"]
    /\ UNCHANGED db

\* SELECT ... FROM customer_profiles succeeds; the block ends with a commit
SelectProfile(t) ==
    /\ webhook.h[t].pc = "select"
    /\ db.profiles /\ db.txn # "aborted"
    /\ db' = [Commit(db) EXCEPT !.entered = 0]
    /\ webhook' = [webhook EXCEPT !.h[t].pc = "text"]

\* the SELECT raises (customer_profiles does not exist, or the transaction
\* is already aborted): the connection's transaction is aborted
SelectRaises(t) ==
    /\ webhook.h[t].pc = "select"
    /\ ~db.profiles \/ db.txn = "aborted"
    /\ db' = [db EXCEPT !.txn = "aborted"]
    /\ webhook' = [webhook EXCEPT !.h[t].pc = "rollback"]

\* the second block ends on the exception: rollback; except Exception: pass
RollbackProfile(t) ==
    /\ webhook.h[t].pc = "rollback"
    /\ db' = [Rollback(db) EXCEPT !.entered = 0]
    /\ webhook' = [webhook EXCEPT !.h[t].pc = "text"]

\* send_text(from_number, personalized or "Thanks for your visit! ...")
SendText(t) ==
    /\ webhook.h[t].pc = "text"
    /\ webhook' = [webhook EXCEPT
                     !.h[t].sent = Append(@, "text"),
                     !.h[t].pc = IF webhook.h[t].shown >= 10
                                 THEN "reward" ELSE "return"]
    /\ UNCHANGED db

\* if visits >= 10: send_text(from_number, "Free coffee unlocked! ...")
SendReward(t) ==
    /\ webhook.h[t].pc = "reward"
    /\ webhook' = [webhook EXCEPT !.h[t].sent = Append(@, "reward"),
                                  !.h[t].pc = "return"]
    /\ UNCHANGED db

\* return "ok", 200
ReturnOk(t) ==
    /\ webhook.h[t].pc = "return"
    /\ webhook' = [webhook EXCEPT !.h[t] = SaleFrame]
    /\ UNCHANGED db

\* except Exception as exc: print(...); return "ok", 200
ExceptOk(t) ==
    /\ webhook.h[t].pc = "except"
    /\ webhook' = [webhook EXCEPT !.h[t] = SaleFrame]
    /\ UNCHANGED db

\* process start: DATABASE_URL set or not, the driver installed, the
\* customer_profiles table created by an earlier Flow submission or not,
\* the sender's stored visits so far
InitSale ==
    /\ module = "app"
    /\ icon_file = "missing"
    /\ coffee_src = LoadIcon(icon_file)
    /\ font = [measurable |-> TRUE, idx |-> 1]
    /\ call = [c \in Calls |-> IdleFrame]
    /\ http = HttpIdle
    /\ \E c \in {"None", "connected"}, r \in {"allowed", "refused"},
          p \in BOOLEAN, n \in {0, StartVisits} :
          /\ db = [DbIdle EXCEPT !.conn = c, !.reentry = r, !.profiles = p,
                                 !.number_of_visits = n]
          /\ webhook = [WebhookIdle EXCEPT !.base = n]
    /\ checkin = CheckinIdle
    /\ survey = SurveyIdle
    /\ review = ReviewIdle
    /\ hub = HubIdle

NextSale ==
    \E t \in Threads :
        \/ DeliverSale(t) /\ UNCHANGED beyondSale
        \/ NotConfigured(t) /\ UNCHANGED beyondSale
        \/ EnterUpsert(t) /\ UNCHANGED beyondSale
        \/ EnterUpsertRefused(t) /\ UNCHANGED beyondSale
        \/ Upsert(t) /\ UNCHANGED beyondSale
        \/ UpsertRaises(t) /\ UNCHANGED beyondSale
        \/ CommitUpsert(t) /\ UNCHANGED beyondSale
        \/ SendImage(t) /\ UNCHANGED beyondSale
        \/ EnterProfile(t) /\ UNCHANGED beyondSale
        \/ EnterProfileRefused(t) /\ UNCHANGED beyondSale
        \/ SelectProfile(t) /\ UNCHANGED beyondSale
        \/ SelectRaises(t) /\ UNCHANGED beyondSale
        \/ RollbackProfile(t) /\ UNCHANGED beyondSale
        \/ SendText(t) /\ UNCHANGED beyondSale
        \/ SendReward(t) /\ UNCHANGED beyondSale
        \/ ReturnOk(t) /\ UNCHANGED beyondSale
        \/ ExceptOk(t) /\ UNCHANGED beyondSale

SpecSale == InitSale /\ [][NextSale]_vars

----------------------------------------------------------------------------
(* handle_checkin (checkin.py, table members) and handle_clockin           *)
(* (clockin.py, table staff): the same statements on one row               *)

DEBOUNCE_MINUTES == 5

\* seconds the clock advances between two looks at it
TickSeconds == 100
\* the clock stops after this many advances
MaxTicks == 8
\* calls made in a run
MaxCalls == 5

\* a timestamptz as the table hands it back: the same instant, with offset
Timestamptz(ts) == [ts EXCEPT !.zone = "+00:00"]

\* datetime.fromisoformat(last_ts_raw.replace("Z", "+00:00"))
\*   .replace(tzinfo=None), as seconds
FromIso(ts) ==
    LET replaced == IF ts.zone = "Z" THEN [ts EXCEPT !.zone = "+00:00"] ELSE ts
    IN  replaced.secs

\* mutant: every call with a stored row counts
DebounceNever(existing, now_utc) ==
    IF ~existing.exists
    THEN [new_count |-> 1, recently_checked |-> FALSE]
    ELSE [new_count |-> existing.checkin_count + 1, recently_checked |-> FALSE]

\* step 2 of the handler: new_count and recently_checked from the row read
Debounce(existing, now_utc) ==
    IF ~existing.exists
    THEN [new_count |-> 1, recently_checked |-> FALSE]
    ELSE LET prev_count == existing.checkin_count
             delta == now_utc - FromIso(existing.last_checkin_at)
         IN  IF delta < DEBOUNCE_MINUTES * 60
             THEN [new_count |-> prev_count, recently_checked |-> TRUE]
             ELSE [new_count |-> prev_count + 1, recently_checked |-> FALSE]

\* mutant: the confirmation is sent before the upsert is tried
StepThreeSendsFirst(recently_checked, upsert_raises) ==
    <<IF recently_checked THEN "already" ELSE "success">>
        \o (IF upsert_raises THEN <<"sorry">> ELSE <<>>)

\* step 3 of the handler, the messages it hands to send_text: the upsert
\* and the confirmation sit in one try block, the apology in its except
StepThreeSends(recently_checked, upsert_raises) ==
    IF upsert_raises
    THEN <<"sorry">>
    ELSE <<IF recently_checked THEN "already" ELSE "success">>

\* one call of the handler, start to end; the select and the upsert each
\* either answer or raise
HandleCheckin(select_raises, upsert_raises) ==
    /\ checkin.calls < MaxCalls
    /\ LET rows == IF select_raises THEN NoRow ELSE checkin.row
           now_utc == checkin.now
           d == Debounce(rows, now_utc)
           payload == [exists |-> TRUE, checkin_count |-> d.new_count,
                       last_checkin_at |-> Timestamptz(IsoFormat(now_utc))]
       IN  checkin' =
             IF upsert_raises
             THEN [checkin EXCEPT
                     !.calls = @ + 1,
                     !.select = IF select_raises THEN "raised" ELSE "ok",
                     !.upsert = "raised",
                     !.sent = StepThreeSends(d.recently_checked, TRUE),
                     !.reply = "sorry", !.reply_count = 0]
             ELSE [checkin EXCEPT
                     !.calls = @ + 1,
                     !.select = IF select_raises THEN "raised" ELSE "ok",
                     !.upsert = "ok",
                     !.row = payload,
                     !.sent = StepThreeSends(d.recently_checked, FALSE),
                     !.reply = IF d.recently_checked THEN "already"
                               ELSE "success",
                     !.reply_count = IF d.recently_checked THEN 0
                                     ELSE d.new_count,
                     !.counted_at = IF d.recently_checked THEN @ ELSE now_utc]

\* time passes between calls
Tick ==
    /\ checkin.now < MaxTicks * TickSeconds
    /\ checkin' = [checkin EXCEPT !.now = @ + TickSeconds]

InitCheckin ==
    /\ module = "app"
    /\ icon_file = "missing"
    /\ coffee_src = LoadIcon(icon_file)
    /\ font = [measurable |-> TRUE, idx |-> 1]
    /\ call = [c \in Calls |-> IdleFrame]
    /\ http = HttpIdle
    /\ db = DbIdle
    /\ webhook = WebhookIdle
    /\ \E f \in {"handle_checkin", "handle_clockin"} :
          checkin = [CheckinIdle EXCEPT !.handler = f]
    /\ survey = SurveyIdle
    /\ review = ReviewIdle
    /\ hub = HubIdle

NextCheckin ==
    \/ (\E s, u \in BOOLEAN : HandleCheckin(s, u)) /\ UNCHANGED beyondCheckin
    \/ Tick /\ UNCHANGED beyondCheckin

SpecCheckin == InitCheckin /\ [][NextCheckin]_vars

\* a step that is one call of the handler
IsCheckinCall == checkin'.calls = checkin.calls + 1

\* seconds between the clock and the stored last_checkin_at
SinceStored == checkin.now - FromIso(checkin.row.last_checkin_at)

----------------------------------------------------------------------------
(* The three-question profile flow of qa_handler.py                        *)
(*                                                                         *)
(* Every .execute() is one request to the database and takes effect at     *)
(* once; a call of handle_profile_answer is a sequence of such requests,   *)
(* and nothing ties the requests of one call together.                     *)

\* flows started in a run
MaxStarts == 1
\* answers handled in a run
MaxAnswers == 4

\* the ids of QUESTIONS, in order
QUESTIONS == <<"birthday", "favorite_flavor", "promo_opt_in">>

FLOW_ID == "profile_v1"

\* what a customer types
AnswerTexts == {"17/5", "yes"}

\* _parse_birthday: "d/m" becomes "--mm-dd", other text is kept
ParseBirthday(t) == IF t = "17/5" THEN "--05-17" ELSE t

\* _parse_bool
ParseBool(t) ==
    IF t \in {"y", "yes", "yeah", "yep", "sure", "ok"} THEN "True"
    ELSE IF t \in {"n", "no", "nope"} THEN "False"
    ELSE "None"

\* latest.get(qid): the newest response under qid, or None
Latest(responses, qid) ==
    LET at == {i \in 1 .. Len(responses) : responses[i].question_id = qid}
    IN  IF at = {} THEN "None"
        ELSE responses[CHOOSE i \in at : \A j \in at : j <= i].answer_text

\* the row _upsert_profile_from_answers writes
ProfileFrom(responses) ==
    LET birthday_raw == Latest(responses, "birthday")
        promo_raw == Latest(responses, "promo_opt_in")
    IN  [exists |-> TRUE,
         birthday |-> IF birthday_raw = "None" THEN "None"
                      ELSE ParseBirthday(birthday_raw),
         favorite_flavor |-> Latest(responses, "favorite_flavor"),
         promo_opt_in |-> IF promo_raw = "None" THEN "None"
                          ELSE ParseBool(promo_raw)]

StateRow(step) ==
    [exists |-> TRUE, flow_id |-> FLOW_ID, step_index |-> step,
     total_steps |-> Len(QUESTIONS)]

\* a row some other flow left for the customer
OtherFlowRow ==
    [exists |-> TRUE, flow_id |-> "other_v1", step_index |-> 0,
     total_steps |-> Len(QUESTIONS)]

\* mutant: any row is taken for a profile-flow row
InFlowAnyRow(state) == state.exists

\* the negation of: if not state or state.get("flow_id") != FLOW_ID
InFlow(state) == state.exists /\ state.flow_id = FLOW_ID

\* the message sent with question number step (0-based)
Prompt(step) == <<"prompt", QUESTIONS[step + 1]>>

NoAnswerInFlight == \A a \in Answerers : survey.h[a].pc = "idle"

\* start_profile_flow: upsert the state row at step 0, send the first
\* prompt; the customer is not in the flow already
StartFlow ==
    /\ survey.starts < MaxStarts
    /\ NoAnswerInFlight
    /\ ~InFlow(survey.state)
    /\ survey' = [survey EXCEPT !.starts = @ + 1,
                                !.state = StateRow(0),
                                !.outbox = Append(@, Prompt(0))]

\* a message from the customer reaches handle_profile_answer on thread a
BeginAnswer(a, text) ==
    /\ survey.answers < MaxAnswers
    /\ survey.h[a].pc = "idle"
    /\ survey' = [survey EXCEPT
                    !.answers = @ + 1,
                    !.h[a] = [AnswerFrame EXCEPT !.pc = "select", !.text = text]]

\* the select finds no row of this flow: return False
NotInFlow(a) ==
    /\ survey.h[a].pc = "select"
    /\ ~InFlow(survey.state)
    /\ survey' = [survey EXCEPT !.h[a].pc = "returned", !.h[a].result = FALSE]

\* the select finds the flow's row: step and total are read from it (every
\* row this module writes has 0 <= step_index < total_steps)
SelectState(a) ==
    /\ survey.h[a].pc = "select"
    /\ InFlow(survey.state)
    /\ survey.state.step_index >= 0
    /\ survey.state.step_index < survey.state.total_steps
    /\ survey' = [survey EXCEPT !.h[a].pc = "insert",
                                !.h[a].step = survey.state.step_index,
                                !.h[a].total = survey.state.total_steps]

\* mutant: the answer is filed under the first question whatever the step
InsertUnderFirst(a) ==
    /\ survey.h[a].pc = "insert"
    /\ survey' = [survey EXCEPT
                    !.responses = Append(@, [question_id |-> QUESTIONS[1],
                                             answer_text |-> survey.h[a].text]),
                    !.h[a].step = @ + 1,
                    !.h[a].pc = IF survey.h[a].step + 1 >= survey.h[a].total
                                THEN "delete" ELSE "upsert"]

\* insert the response under QUESTIONS[step]; step += 1
InsertResponse(a) ==
    /\ survey.h[a].pc = "insert"
    /\ survey' = [survey EXCEPT
                    !.responses =
                        Append(@, [question_id |-> QUESTIONS[survey.h[a].step + 1],
                                   answer_text |-> survey.h[a].text]),
                    !.h[a].step = @ + 1,
                    !.h[a].pc = IF survey.h[a].step + 1 >= survey.h[a].total
                                THEN "delete" ELSE "upsert"]

\* step < total: upsert the state row with the new step
UpsertState(a) ==
    /\ survey.h[a].pc = "upsert"
    /\ survey' = [survey EXCEPT
                    !.state = [StateRow(survey.h[a].step) EXCEPT
                                 !.total_steps = survey.h[a].total],
                    !.h[a].pc = "prompt"]

\* send the next prompt; return True
SendPrompt(a) ==
    /\ survey.h[a].pc = "prompt"
    /\ survey' = [survey EXCEPT
                    !.outbox = Append(@, Prompt(survey.h[a].step)),
                    !.h[a].pc = "returned", !.h[a].result = TRUE]

\* step >= total: delete the state row
DeleteState(a) ==
    /\ survey.h[a].pc = "delete"
    /\ survey' = [survey EXCEPT !.state = NoState, !.h[a].pc = "profile"]

\* _upsert_profile_from_answers
UpsertProfile(a) ==
    /\ survey.h[a].pc = "profile"
    /\ survey' = [survey EXCEPT !.profile = ProfileFrom(survey.responses),
                                !.h[a].pc = "thanks"]

\* send the completion message; return True
SendThanks(a) ==
    /\ survey.h[a].pc = "thanks"
    /\ survey' = [survey EXCEPT !.outbox = Append(@, <<"thanks">>),
                                !.h[a].pc = "returned", !.h[a].result = TRUE]

\* the caller has the return value
ReturnAnswer(a) ==
    /\ survey.h[a].pc = "returned"
    /\ survey' = [survey EXCEPT !.h[a] = AnswerFrame]

InitSurvey ==
    /\ module = "app"
    /\ icon_file = "missing"
    /\ coffee_src = LoadIcon(icon_file)
    /\ font = [measurable |-> TRUE, idx |-> 1]
    /\ call = [c \in Calls |-> IdleFrame]
    /\ http = HttpIdle
    /\ db = DbIdle
    /\ webhook = WebhookIdle
    /\ checkin = CheckinIdle
    /\ \E row \in {NoState, OtherFlowRow} :
          survey = [SurveyIdle EXCEPT !.state = row]
    /\ review = ReviewIdle
    /\ hub = HubIdle

\* answers handled one after the other
NextSurveySeq ==
    \/ StartFlow /\ UNCHANGED beyondSurvey
    \/ \E a \in Answerers :
          \/ (\E text \in AnswerTexts : BeginAnswer(a, text))
                /\ NoAnswerInFlight /\ UNCHANGED beyondSurvey
          \/ NotInFlow(a) /\ UNCHANGED beyondSurvey
          \/ SelectState(a) /\ UNCHANGED beyondSurvey
          \/ InsertResponse(a) /\ UNCHANGED beyondSurvey
          \/ UpsertState(a) /\ UNCHANGED beyondSurvey
          \/ SendPrompt(a) /\ UNCHANGED beyondSurvey
          \/ DeleteState(a) /\ UNCHANGED beyondSurvey
          \/ UpsertProfile(a) /\ UNCHANGED beyondSurvey
          \/ SendThanks(a) /\ UNCHANGED beyondSurvey
          \/ ReturnAnswer(a) /\ UNCHANGED beyondSurvey

SpecSurveySeq == InitSurvey /\ [][NextSurveySeq]_vars

\* answers handled on two threads at once
NextSurvey ==
    \/ StartFlow /\ UNCHANGED beyondSurvey
    \/ \E a \in Answerers :
          \/ (\E text \in AnswerTexts : BeginAnswer(a, text))
                /\ UNCHANGED beyondSurvey
          \/ NotInFlow(a) /\ UNCHANGED beyondSurvey
          \/ SelectState(a) /\ UNCHANGED beyondSurvey
          \/ InsertResponse(a) /\ UNCHANGED beyondSurvey
          \/ UpsertState(a) /\ UNCHANGED beyondSurvey
          \/ SendPrompt(a) /\ UNCHANGED beyondSurvey
          \/ DeleteState(a) /\ UNCHANGED beyondSurvey
          \/ UpsertProfile(a) /\ UNCHANGED beyondSurvey
          \/ SendThanks(a) /\ UNCHANGED beyondSurvey
          \/ ReturnAnswer(a) /\ UNCHANGED beyondSurvey

SpecSurvey == InitSurvey /\ [][NextSurvey]_vars

\* the tables and the outbox
SurveyData ==
    <<survey.state, survey.responses, survey.profile, survey.outbox>>

\* how many responses are filed under question qid
Filed(qid) ==
    Cardinality({i \in 1 .. Len(survey.responses) :
                    survey.responses[i].question_id = qid})

LastOf(seq) == seq[Len(seq)]

----------------------------------------------------------------------------
(* review.py: the review prompt, the Google link and the reply handler     *)

\* calls of review.py functions in a run
MaxReviewCalls == 3

\* the text of a message: missing, empty, blank or some words
ReplyTexts ==
    {Absent} \cup {[present |-> TRUE, text |-> t] : t \in {"", " ", "great"}}

\* the display name after `(display_name or "").strip() or
\* _fetch_name_if_missing(...)`: found, or None
ReviewNames == {Absent, [present |-> TRUE, text |-> "Ann"]}

\* if not text
NotText(text) == ~text.present \/ text.text = ""

\* the payload of a reply, as inserted into responses
ReplyRow(text) ==
    [prompt |-> text.text, source_trigger |-> "REVIEW_REPLY",
     status |-> "received"]

\* the payloads start_review_flow and send_google_review_link insert
PromptRow(trigger, name) ==
    [prompt |-> IF name.present THEN "with name" ELSE "no name",
     source_trigger |-> trigger,
     status |-> IF trigger = "REVIEW" THEN "pending" ELSE "sent"]

ThankYou == <<"thank you for your feedback">>

\* what one call does: rows inserted, messages sent, value returned
Outcome(rows, msgs, value) ==
    [stored |-> rows, sent |-> msgs, result |-> value]

\* the first def handle_review_reply: the thank-you and True only when the
\* insert went through
HandleReviewReplyShadowed(text, insert_raises) ==
    IF NotText(text) THEN Outcome(<<>>, <<>>, "False")
    ELSE IF insert_raises THEN Outcome(<<>>, <<>>, "False")
    ELSE Outcome(<<ReplyRow(text)>>, <<ThankYou>>, "True")

\* the second def handle_review_reply: the insert is tried, its exception
\* is printed, and the thank-you and True follow either way
HandleReviewReplyLast(text, insert_raises) ==
    IF NotText(text) THEN Outcome(<<>>, <<>>, "False")
    ELSE Outcome(IF insert_raises THEN <<>> ELSE <<ReplyRow(text)>>,
                 <<ThankYou>>, "True")

\* the module's name handle_review_reply after import: the second def
\* statement rebinds the name the first one bound
handle_review_reply(text, insert_raises) ==
    HandleReviewReplyLast(text, insert_raises)

\* send the prompt (or the Google link), then log it; an insert that raises
\* is printed and dropped
SendAndLog(trigger, name, insert_raises) ==
    Outcome(IF insert_raises THEN <<>> ELSE <<PromptRow(trigger, name)>>,
            <<<<trigger, name.present>>>>, "None")

\* a call ran with this outcome
ReviewAfter(fn, text, insert_raises, out) ==
    [review EXCEPT
        !.responses = @ \o out.stored,
        !.outbox = @ \o out.sent,
        !.calls = @ + 1,
        !.last = [fn |-> fn, text |-> text,
                  insert |-> IF insert_raises THEN "raised" ELSE "ok",
                  result |-> out.result, sent |-> out.sent]]

\* start_review_flow
StartReviewFlow(name, insert_raises) ==
    /\ review.calls < MaxReviewCalls
    /\ review' = ReviewAfter("start_review_flow", name, insert_raises,
                             SendAndLog("REVIEW", name, insert_raises))

\* send_google_review_link
SendGoogleReviewLink(name, insert_raises) ==
    /\ review.calls < MaxReviewCalls
    /\ review' = ReviewAfter("send_google_review_link", name, insert_raises,
                             SendAndLog("GOOGLE", name, insert_raises))

\* a call of handle_review_reply; with empty text the insert is never tried
HandleReviewReply(text, insert_raises) ==
    /\ review.calls < MaxReviewCalls
    /\ NotText(text) => ~insert_raises
    /\ review' = ReviewAfter("handle_review_reply", text,
                             insert_raises /\ ~NotText(text),
                             handle_review_reply(text, insert_raises))

InitReview ==
    /\ module = "app"
    /\ icon_file = "missing"
    /\ coffee_src = LoadIcon(icon_file)
    /\ font = [measurable |-> TRUE, idx |-> 1]
    /\ call = [c \in Calls |-> IdleFrame]
    /\ http = HttpIdle
    /\ db = DbIdle
    /\ webhook = WebhookIdle
    /\ checkin = CheckinIdle
    /\ survey = SurveyIdle
    /\ review = ReviewIdle
    /\ hub = HubIdle

NextReview ==
    \/ (\E name \in ReviewNames, r \in BOOLEAN : StartReviewFlow(name, r))
          /\ UNCHANGED beyondReview
    \/ (\E name \in ReviewNames, r \in BOOLEAN : SendGoogleReviewLink(name, r))
          /\ UNCHANGED beyondReview
    \/ (\E text \in ReplyTexts, r \in BOOLEAN : HandleReviewReply(text, r))
          /\ UNCHANGED beyondReview

SpecReview == InitReview /\ [][NextReview]_vars

\* a step that is one call of handle_review_reply
IsReviewReply ==
    /\ review'.calls = review.calls + 1
    /\ review'.last.fn = "handle_review_reply"

----------------------------------------------------------------------------
(* app.py: GET /webhook, the verification handshake                        *)

\* a query parameter or environment variable: missing, or one of these texts
Optional(texts) == {Absent} \cup {[present |-> TRUE, text |-> t] : t \in texts}

\* WHATSAPP_VERIFY_TOKEN in the environment: unset, set, or set to nothing
VerifyTokenEnv == Optional({"s3cret", ""})

HubModes == Optional({"subscribe", "Subscribe", "unsubscribe", ""})

HubTokens == Optional({"my_verify_token", "s3cret", "wrong", ""})

HubChallenges == Optional({"1158201444", "Forbidden", ""})

\* VERIFY_TOKEN = os.getenv("WHATSAPP_VERIFY_TOKEN", "my_verify_token")
VERIFY_TOKEN == IF hub.env.present THEN hub.env.text ELSE "my_verify_token"

\* arg == "text" for a request.args.get result: None equals no string
ArgEquals(arg, text) == arg.present /\ arg.text = text

\* challenge or ""
ChallengeOrEmpty(challenge) == IF challenge.present THEN challenge.text ELSE ""

\* the condition spelled with the token test left out
ModeIsSubscribe(mode, token) == ArgEquals(mode, "subscribe")

\* mode == "subscribe" and token == VERIFY_TOKEN
ModeAndTokenMatch(mode, token) ==
    ArgEquals(mode, "subscribe") /\ ArgEquals(token, VERIFY_TOKEN)

\* GET /webhook arrives and verify_webhook reads its three arguments
GetWebhook(mode, token, challenge) ==
    /\ hub.pc \in {"idle", "responded"}
    /\ hub' = [hub EXCEPT !.pc = "verify", !.mode = mode, !.token = token,
                          !.challenge = challenge, !.status = 0, !.body = ""]

\* return challenge or "", 200
ReturnChallenge ==
    /\ hub.pc = "verify"
    /\ ModeAndTokenMatch(hub.mode, hub.token)
    /\ hub' = [hub EXCEPT !.pc = "responded", !.status = 200,
                          !.body = ChallengeOrEmpty(hub.challenge)]

\* return "Forbidden", 403
ReturnForbidden ==
    /\ hub.pc = "verify"
    /\ ~ModeAndTokenMatch(hub.mode, hub.token)
    /\ hub' = [hub EXCEPT !.pc = "responded", !.status = 403,
                          !.body = "Forbidden"]

InitVerify ==
    /\ module = "app"
    /\ icon_file = "missing"
    /\ coffee_src = LoadIcon(icon_file)
    /\ font = [measurable |-> TRUE, idx |-> 1]
    /\ call = [c \in Calls |-> IdleFrame]
    /\ http = HttpIdle
    /\ db = DbIdle
    /\ webhook = WebhookIdle
    /\ checkin = CheckinIdle
    /\ survey = SurveyIdle
    /\ review = ReviewIdle
    /\ \E env \in VerifyTokenEnv : hub = [HubIdle EXCEPT !.env = env]

NextVerify ==
    \/ (\E mode \in HubModes, token \in HubTokens, challenge \in HubChallenges :
            GetWebhook(mode, token, challenge))
          /\ UNCHANGED beyondVerify
    \/ ReturnChallenge /\ UNCHANGED beyondVerify
    \/ ReturnForbidden /\ UNCHANGED beyondVerify

SpecVerify == InitVerify /\ [][NextVerify]_vars

----------------------------------------------------------------------------
(* Claims                                                                  *)

\* C1: for visits in 0..10 the finished grid has exactly `visits` FILLED and
\* 10 - visits EMPTY cells, and a cell is FILLED iff its row-major index is
\* below visits; the returned image shows the same cells.
C1_FillOrder ==
    \A c \in Calls :
        (GridDone(c) /\ call[c].arg \in 0 .. 10) =>
            /\ Cardinality(FilledOf(call[c].cells)) = call[c].arg
            /\ Cardinality(EmptyOf(call[c].cells)) = 10 - call[c].arg
            /\ \A i \in Cells :
                 (call[c].cells[i].fill = "FILLED") <=> (i < call[c].arg)
            /\ Returned(c) => call[c].buf.pixels = call[c].cells

C1_Witness ==
    \E c \in Calls :
        /\ Returned(c)
        /\ call[c].arg = 3
        /\ FilledOf(call[c].buf.pixels) = {0, 1, 2}

\* C2: an argument below 0 renders as 0 (every cell EMPTY) and one above 10
\* as 10 (every cell FILLED): the returned frame equals that of a call with
\* the boundary value, and clamping the clamped count changes nothing.
C2_ClampToBoundary ==
    /\ \A c \in Calls :
         /\ call[c].pc # "idle" =>
              /\ call[c].visits \in 0 .. 10
              /\ Clamp(call[c].visits) = call[c].visits
              /\ call[c].arg < 0 => call[c].visits = 0
              /\ call[c].arg > 10 => call[c].visits = 10
         /\ (GridDone(c) /\ call[c].arg < 0) => EmptyOf(call[c].cells) = Cells
         /\ (GridDone(c) /\ call[c].arg > 10) => FilledOf(call[c].cells) = Cells
    /\ \A c, d \in Calls :
         (/\ Returned(c) /\ Returned(d)
          /\ \/ call[c].arg < 0 /\ call[d].arg = 0
             \/ call[c].arg > 10 /\ call[d].arg = 10)
         => /\ call[c].cells = call[d].cells
            /\ call[c].lay = call[d].lay
            /\ call[c].buf = call[d].buf

C2_Witness ==
    \E c, d \in Calls :
        /\ Returned(c) /\ Returned(d)
        /\ call[c].arg > 10 /\ call[d].arg = 10
        /\ call[c].buf = call[d].buf
        /\ FilledOf(call[c].cells) = Cells

\* C3: render_stamp_card never raises to its caller (an exception during
\* measurement or drawing is caught inside the call).
C3_NeverRaises ==
    \A c \in Calls : call[c].pc # "raised"

\* C4: in card_renderer the subtitle's bottom edge (thank_y + thank_h) is at
\* most the first row's top edge (grid_top_center - CIRCLE_R) minus
\* MIN_GAP_BELOW_THANK, for any font metrics.
C4_NonOverlap ==
    \A c \in Calls :
        (module = "card_renderer" /\ PastHead(c)) =>
            call[c].lay.thank_y + call[c].lay.thank_h
                <= call[c].lay.grid_top - CIRCLE_R - MIN_GAP_BELOW_THANK

\* C5: the layout does not depend on visits: two calls under the same font
\* metrics compute the same anchors and the same 10 cell centres, and their
\* canvases differ only in the cells whose FILLED/EMPTY state differs.
C5_LayoutIgnoresVisits ==
    \A c, d \in Calls :
        /\ (PastHead(c) /\ PastHead(d)) =>
             /\ call[c].lay.grid_top = call[d].lay.grid_top
             /\ [call[c].lay EXCEPT !.foot_x = 0, !.footer_y = 0]
                  = [call[d].lay EXCEPT !.foot_x = 0, !.footer_y = 0]
             /\ \A i \in Cells :
                  (i < call[c].k /\ i < call[d].k) =>
                      /\ call[c].cells[i].x = call[d].cells[i].x
                      /\ call[c].cells[i].y = call[d].cells[i].y
                      /\ (call[c].cells[i].fill = call[d].cells[i].fill
                            => call[c].cells[i] = call[d].cells[i])
        /\ (GridDone(c) /\ GridDone(d)) => call[c].lay = call[d].lay

C5_Witness ==
    \E c, d \in Calls :
        /\ Returned(c) /\ Returned(d)
        /\ call[c].visits = 2 /\ call[d].visits = 9
        /\ call[c].lay = call[d].lay
        /\ call[c].cells # call[d].cells

\* C6: with the icon file missing or unreadable at import the cached icon is
\* None; every call then still runs to its return with the FILLED/EMPTY
\* assignment of its count and no overlay on any cell, and a call that
\* raises does so for unmeasurable text, never for the icon.
C6_MissingIconPlainDiscs ==
    /\ icon_file \in {"missing", "unreadable"} => coffee_src = "None"
    /\ coffee_src = "None" =>
         \A c \in Calls :
             /\ \A i \in Cells : ~call[c].cells[i].overlay
             /\ GridDone(c) =>
                  \A i \in Cells :
                      call[c].cells[i].fill
                          = IF i < call[c].visits THEN "FILLED" ELSE "EMPTY"
             /\ Returned(c) =>
                  /\ call[c].buf.written
                  /\ \A i \in Cells : ~call[c].buf.pixels[i].overlay
                  /\ FilledOf(call[c].buf.pixels) = 0 .. (call[c].visits - 1)
             /\ call[c].pc = "raised" => ~font.measurable

C6_Witness ==
    \E c \in Calls :
        /\ icon_file = "unreadable"
        /\ coffee_src = "None"
        /\ module = "card_renderer"
        /\ Returned(c)
        /\ call[c].visits = 4
        /\ FilledOf(call[c].buf.pixels) = {0, 1, 2, 3}
        /\ \A i \in Cells : ~call[c].buf.pixels[i].overlay

\* C7: overlapping calls do not disturb each other: whatever the
\* interleaving, a call's canvas holds at every step what it holds when the
\* call runs alone, the call returns exactly what it returns alone, and no
\* step of any call changes the cached icon.
C7_Isolated ==
    \A c \in Calls :
        /\ PastHead(c) =>
             LET visits == Clamp(call[c].arg)
                 top == HeadLayout(module, font).grid_top
             IN  /\ call[c].visits = visits
                 /\ \A i \in Cells :
                      call[c].cells[i]
                          = IF i < call[c].k
                            THEN DrawnCell(module, coffee_src, i, visits, top)
                            ELSE BlankCell
        /\ Returned(c) =>
             LET alone == RenderAlone(module, coffee_src, font, call[c].arg)
             IN  /\ call[c].lay = alone.lay
                 /\ call[c].cells = alone.cells
                 /\ call[c].buf = alone.buf

\* the cached icon is written by no step
C7_IconUnchanged == coffee_src' = coffee_src

\* C7, as one formula: isolation in every state, the icon unchanged by
\* every step
C7_NoSharedState == [] C7_Isolated /\ [][C7_IconUnchanged]_vars

C7_Witness ==
    /\ Returned(1)
    /\ call[2].pc = "grid" /\ call[2].k = 5
    /\ call[1].visits = 3 /\ call[2].visits = 8
    /\ call[1].buf = RenderAlone(module, coffee_src, font, 3).buf

\* C8: every entry point returns its buffer with the image written into it
\* and the read position back at 0.
C8_BufferRewound ==
    \A c \in Calls :
        Returned(c) =>
            /\ call[c].buf.written
            /\ call[c].buf.pos = 0
            /\ call[c].buf.width = W /\ call[c].buf.height = H
            /\ call[c].buf.pixels = call[c].cells
            /\ \A i \in Cells : call[c].buf.pixels[i].fill # "BLANK"

C8_Witness ==
    \E c \in Calls :
        /\ module = "card_svg"
        /\ Returned(c)
        /\ call[c].arg = 11
        /\ call[c].buf.written /\ call[c].buf.pos = 0

\* C9: the subtitle's top is the larger of THANK_Y_TARGET and the badge's
\* bottom edge plus the clearance, so it is never above either.
C9_SubtitleBelowBadge ==
    \A c \in Calls :
        (module = "card_renderer" /\ PastHead(c)) =>
            /\ call[c].lay.thank_y >= THANK_Y_TARGET
            /\ call[c].lay.thank_y >= call[c].lay.logo_cy + logo_outer_r + LOGO_CLEARANCE
            /\ call[c].lay.thank_y
                 \in {THANK_Y_TARGET, call[c].lay.logo_cy + logo_outer_r + LOGO_CLEARANCE}

C9_Witness ==
    \E c \in Calls :
        /\ module = "card_renderer"
        /\ PastHead(c)
        /\ call[c].lay.thank_y = THANK_Y_TARGET
        /\ call[c].lay.thank_y > call[c].lay.logo_cy + logo_outer_r + LOGO_CLEARANCE

\* C10: the 10 centres are 2 rows of 5: neighbours in a row are COL_GAP
\* apart on one Y, the middle column is at W/2 with equal left and right
\* margins, and the second row is ROW_GAP below the first.
C10_GridCentred ==
    \A c \in Calls :
        GridDone(c) =>
            LET at == call[c].cells
            IN  /\ \A i \in Cells :
                     (i % 5 # 4) =>
                         /\ at[i + 1].x - at[i].x = COL_GAP
                         /\ at[i + 1].y = at[i].y
                /\ 2 * at[2].x = W
                /\ at[0].x = W - at[4].x
                /\ \A i \in 0 .. 4 :
                     /\ at[i + 5].y = at[i].y + ROW_GAP
                     /\ at[i + 5].x = at[i].x
                /\ at[0].y = call[c].lay.grid_top

C10_Witness ==
    \E c \in Calls :
        /\ module = "card_renderer"
        /\ GridDone(c)
        /\ call[c].cells[2].x = 540
        /\ call[c].cells[7].y = call[c].cells[2].y + 180
        /\ call[c].cells[0].x = 180 /\ call[c].cells[4].x = 900

\* C13: in card_renderer the first grid row's centre Y is never less than
\* GRID_TOP_FIXED_MIN (740), whatever height the subtitle measures to.
C13_GridTopAtLeastMin ==
    \A c \in Calls :
        (module = "card_renderer" /\ PastHead(c)) =>
            call[c].lay.grid_top >= GRID_TOP_FIXED_MIN

\* C14: in card_renderer the second row's bottom edge (grid_top_center +
\* ROW_GAP + CIRCLE_R) is at most FOOTER_Y - FOOTER_MARGIN_TOP, whatever
\* height the subtitle measures to; the drawn second row sits there too.
C14_BottomGuard ==
    \A c \in Calls :
        (module = "card_renderer" /\ PastHead(c)) =>
            /\ call[c].lay.grid_top + ROW_GAP + CIRCLE_R
                 <= FOOTER_Y - FOOTER_MARGIN_TOP
            /\ GridDone(c) =>
                 \A i \in 5 .. 9 :
                     call[c].cells[i].y + CIRCLE_R
                         <= FOOTER_Y - FOOTER_MARGIN_TOP

C14_Witness ==
    \E c \in Calls :
        /\ module = "card_renderer"
        /\ GridDone(c)
        /\ font.idx = MaxFontIdx
        /\ call[c].cells[9].y + CIRCLE_R = FOOTER_Y - FOOTER_MARGIN_TOP

\* C11: a visit count given to the card routes, out of range or malformed,
\* is normalized and never answered with an error: /card?n=<x> redirects to
\* the PNG route with n clamped to 0..10 (a non-integer n counts as 0), and
\* the PNG route answers with the card rendered for the clamped count.
\* (Stated for fonts the backend can measure: a raise inside the renderer
\* is C3's subject.)
C11_RoutesNormalize ==
    (http.pc = "responded" /\ font.measurable) =>
        /\ http.status \in {200, 302}
        /\ http.status = 302 =>
             /\ http.location = Decimal(Clamp(QueryCount(http.arg)))
             /\ DigitsValue(http.location) \in 0 .. 10
        /\ http.status = 200 =>
             http.body = RenderAlone("app", coffee_src, font,
                                     Clamp(RequestCount)).buf

\* C12: with the store configured, every SALE from a sender adds exactly 1
\* to the stored number_of_visits (the first creates it at 1) and the bot
\* sends the card image first and the text reply after it; once the
\* deliveries have been handled the counter equals the number of SALE
\* messages, however the deliveries interleaved.
C12_EverySaleCounted ==
    db.conn = "connected" =>
        /\ \A t \in Threads :
             webhook.h[t].pc = "return" =>
                 /\ Len(webhook.h[t].sent) >= 2
                 /\ webhook.h[t].sent[1] = "image"
                 /\ webhook.h[t].sent[2] = "text"
        /\ (\A t \in Threads : webhook.h[t].pc = "idle") =>
               db.number_of_visits = webhook.base + webhook.received

\* C15: a handle_checkin / handle_clockin call made less than
\* DEBOUNCE_MINUTES after the stored last_checkin_at leaves checkin_count
\* unchanged and sends the "already checked in recently" message; a call
\* with no stored row sets the count to 1; a call at or after the window
\* sets it to the previous count + 1.  (The call reads the stored row and
\* its upsert goes through; a raising select or upsert is the subject of
\* C16 and C22.)
C15_Debounce ==
    [][(IsCheckinCall /\ checkin'.select = "ok" /\ checkin'.upsert = "ok") =>
          IF ~checkin.row.exists
          THEN checkin'.row.checkin_count = 1
          ELSE IF SinceStored < DEBOUNCE_MINUTES * 60
          THEN /\ checkin'.row.checkin_count = checkin.row.checkin_count
               /\ checkin'.reply = "already"
          ELSE checkin'.row.checkin_count = checkin.row.checkin_count + 1
      ]_vars

C15_Witness ==
    /\ checkin.select = "ok" /\ checkin.upsert = "ok"
    /\ checkin.reply = "already"
    /\ checkin.row.checkin_count = 2
    /\ checkin.now - checkin.counted_at = DEBOUNCE_MINUTES * 60 - TickSeconds

\* C16: the stored checkin_count never decreases, over any sequence of
\* calls, calls whose lookup of the existing row raises included.
C16_CountNeverDecreases ==
    [][checkin'.row.checkin_count >= checkin.row.checkin_count]_vars

C18_ThreeAnswers ==
    /\ InFlow(survey.state) =>
         /\ survey.state.step_index \in 0 .. survey.state.total_steps - 1
         /\ NoAnswerInFlight =>
              Len(survey.responses)
                  = 3 * (survey.starts - 1) + survey.state.step_index
    /\ \A i \in 1 .. Len(survey.responses) :
         survey.responses[i].question_id = QUESTIONS[((i - 1) % 3) + 1]
    /\ \A a \in Answerers :
         survey.h[a].pc = "returned" =>
             IF survey.h[a].result
             THEN LET s == survey.h[a].step
                  IN  /\ LastOf(survey.responses)
                           = [question_id |-> QUESTIONS[s],
                              answer_text |-> survey.h[a].text]
                      /\ s < 3 => /\ survey.state = StateRow(s)
                                  /\ LastOf(survey.outbox) = Prompt(s)
                      /\ s = 3 => /\ ~survey.state.exists
                                  /\ survey.profile = ProfileFrom(survey.responses)
                                  /\ LastOf(survey.outbox) = <<"thanks">>
                                  /\ Len(survey.responses) = 3 * survey.starts
             ELSE ~InFlow(survey.state)

C18_Witness ==
    \E a \in Answerers :
        /\ survey.h[a].pc = "returned" /\ survey.h[a].result
        /\ survey.h[a].step = 3
        /\ survey.answers = 3
        /\ [i \in 1 .. 3 |-> survey.responses[i].question_id] = QUESTIONS
        /\ survey.outbox
             = <<Prompt(0), Prompt(1), Prompt(2), <<"thanks">> >>
        /\ survey.profile.exists /\ ~survey.state.exists

\* C19: handle_profile_answer for a customer with no response_states row,
\* or with a row whose flow_id is not profile_v1, returns False and changes
\* nothing: no response inserted, no state written or deleted, no profile
\* written, no message sent.
C19_NotInFlowNoChange ==
    [][\A a \in Answerers :
          /\ (/\ survey.h[a].pc = "select"
              /\ survey'.h[a].pc # "select"
              /\ ~survey.state.exists \/ survey.state.flow_id # FLOW_ID) =>
                 /\ survey'.h[a].pc = "returned"
                 /\ survey'.h[a].result = FALSE
                 /\ SurveyData' = SurveyData
          /\ (survey.h[a].pc = "idle" /\ survey'.h[a].pc = "select") =>
                 SurveyData' = SurveyData
          /\ (/\ survey.h[a].pc = "returned" /\ ~survey.h[a].result
              /\ survey'.h[a].pc = "idle") =>
                 SurveyData' = SurveyData
      ]_vars

C19_Witness ==
    \E a \in Answerers :
        /\ survey.h[a].pc = "returned" /\ ~survey.h[a].result
        /\ survey.state = OtherFlowRow
        /\ survey.responses = <<>> /\ survey.outbox = <<>>

\* C20: when two answers from one customer are handled at the same time
\* (their reads, inserts and state writes interleave), each answer is still
\* recorded under a different question and step_index advances once per
\* answer: the survey completes after exactly three answers, one response
\* per question.
C20_ConcurrentAnswers ==
    /\ \A q \in {QUESTIONS[i] : i \in 1 .. 3} : Filed(q) <= survey.starts
    /\ survey.profile.exists =>
         /\ Len(survey.responses) = 3 * survey.starts
         /\ \A q \in {QUESTIONS[i] : i \in 1 .. 3} : Filed(q) = survey.starts

C21_ReplyAlwaysAcknowledged ==
    [][IsReviewReply =>
          LET text == review'.last.text
          IN  IF text.present /\ text.text # ""
              THEN /\ review'.last.result = "True"
                   /\ review'.last.sent = <<ThankYou>>
                   /\ review'.outbox = Append(review.outbox, ThankYou)
                   /\ review'.responses =
                        IF review'.last.insert = "raised"
                        THEN review.responses
                        ELSE Append(review.responses, ReplyRow(text))
              ELSE /\ review'.last.result = "False"
                   /\ review'.last.sent = <<>>
                   /\ review'.outbox = review.outbox
                   /\ review'.responses = review.responses
      ]_vars

C21_Witness ==
    /\ review.last.fn = "handle_review_reply"
    /\ review.last.text = [present |-> TRUE, text |-> "great"]
    /\ review.last.insert = "raised"
    /\ review.last.result = "True"
    /\ review.outbox = <<ThankYou>>
    /\ review.responses = <<>>

\* C23: the answer to GET /webhook is the hub.challenge value (empty when
\* there is none) with status 200 exactly when hub.mode is "subscribe" and
\* hub.verify_token equals the configured VERIFY_TOKEN; every other request
\* gets 403 with the fixed body "Forbidden", whatever the challenge was.
C23_ChallengeOnlyWhenVerified ==
    hub.pc = "responded" =>
        LET configured ==
                IF hub.env.present THEN hub.env.text ELSE "my_verify_token"
            verified ==
                /\ hub.mode.present /\ hub.mode.text = "subscribe"
                /\ hub.token.present /\ hub.token.text = configured
        IN  /\ hub.status \in {200, 403}
            /\ hub.status = 200 <=> verified
            /\ hub.status = 200 =>
                 hub.body = IF hub.challenge.present
                            THEN hub.challenge.text ELSE ""
            /\ hub.status = 403 =>
                 /\ hub.body = "Forbidden"
                 /\ (hub.challenge.present /\ hub.challenge.text # "Forbidden")
                       => hub.body # hub.challenge.text

C23_Witness ==
    /\ hub.pc = "responded"
    /\ hub.env = [present |-> TRUE, text |-> "s3cret"]
    /\ hub.mode = [present |-> TRUE, text |-> "subscribe"]
    /\ hub.token = [present |-> TRUE, text |-> "s3cret"]
    /\ hub.challenge = [present |-> TRUE, text |-> "1158201444"]
    /\ hub.status = 200
    /\ hub.body = "1158201444"

====
